---------------------------- MODULE Spec2Model ----------------------------
(***************************************************************************)
(* A model of the rule-matching and template-substitution engine of        *)
(* uap-rs (src/src/parser/{mod,device,os,user_agent}.rs).                  *)
(*                                                                         *)
(* Strings are sequences of one-character strings.  Option<T> is a record  *)
(* [some, val].  The regex crate is modelled by a small backtracking       *)
(* engine for the dialect the rule universes below are written in:         *)
(* literals, `.`, `\d`, `\.`, `\\`, the quantifiers `+ * ?` on one atom,   *)
(* non-nested capture groups and a leading `(?i)` flag group.              *)
(***************************************************************************)
EXTENDS Naturals, Sequences, FiniteSets

VARIABLES
    regex_file,   \* the RegexFile handed to UserAgentParser::try_from
    parser,       \* what UserAgentParser::try_from returned (or not yet called)
    compiled,     \* log of the Matcher::try_from calls made by try_from
    text,         \* the user-agent string under classification
    client,       \* Option: result of parse(text)
    device,       \* Option: result of parse_device(text)
    os,           \* Option: result of parse_os(text)
    user_agent,   \* Option: result of parse_user_agent(text)
    entry,        \* one rule record, [kind, rule], for the SubParser level
    matcher,      \* what Matcher::try_from(entry) returned (or not yet called)
    out,          \* [called, res]: what matcher.try_parse(text) returned
    pattern,      \* a raw pattern string
    cleaned       \* clean_escapes applied to pattern: none, once, twice

vars == <<regex_file, parser, compiled, text, client, device, os, user_agent,
          entry, matcher, out, pattern, cleaned>>

---------------------------------------------------------------------------
(* Option<T> *)

None == [some |-> FALSE, val |-> <<>>]

Some(v) == [some |-> TRUE, val |-> v]

(* Result<T, E> *)

Ok(v) == [tag |-> "Ok", val |-> v]

Err(e) == [tag |-> "Err", val |-> e]

NotCalled == [tag |-> "NotCalled", val |-> <<>>]

---------------------------------------------------------------------------
(* Characters *)

Digits == {"0", "1", "2", "3", "4", "5", "6", "7", "8", "9"}

LowerLetters == {"a", "b", "c", "d", "e", "f", "g", "h", "i", "j", "k", "l", "m",
                 "n", "o", "p", "q", "r", "s", "t", "u", "v", "w", "x", "y", "z"}

UpperLetters == {"A", "B", "C", "D", "E", "F", "G", "H", "I", "J", "K", "L", "M",
                 "N", "O", "P", "Q", "R", "S", "T", "U", "V", "W", "X", "Y", "Z"}

WhiteSpace == {" ", "\t", "\n", "\r"}

DigitVal(c) ==
    CASE c = "0" -> 0 [] c = "1" -> 1 [] c = "2" -> 2 [] c = "3" -> 3
      [] c = "4" -> 4 [] c = "5" -> 5 [] c = "6" -> 6 [] c = "7" -> 7
      [] c = "8" -> 8 [] c = "9" -> 9

(* Case folding of the letters the rule universes use. *)
Fold(c) ==
    CASE c = "N" -> "n"
      [] c = "C" -> "c"
      [] c = "M" -> "m"
      [] OTHER -> c

---------------------------------------------------------------------------
(* mod.rs helpers *)

none_if_empty(s) == IF s = <<>> THEN None ELSE Some(s)

has_group(replacement) == \E i \in 1..Len(replacement) : replacement[i] = "$"

INVALID_ESCAPES == {"!", " ", "/"}

RECURSIVE ReplaceAllFrom(_, _)
(* Regex::replace_all of INVALID_ESCAPES with "$1": leftmost, non-overlapping
   matches of a backslash followed by one of `!`, space, `/`, scanning s from i. *)
ReplaceAllFrom(s, i) ==
    IF i > Len(s) THEN <<>>
    ELSE IF s[i] = "\\" /\ i + 1 <= Len(s) /\ s[i + 1] \in INVALID_ESCAPES
         THEN <<s[i + 1]>> \o ReplaceAllFrom(s, i + 2)
         ELSE <<s[i]>> \o ReplaceAllFrom(s, i + 1)

clean_escapes(p) == ReplaceAllFrom(p, 1)

RECURSIVE TrimStart(_)
TrimStart(s) ==
    IF s /= <<>> /\ Head(s) \in WhiteSpace THEN TrimStart(Tail(s)) ELSE s

RECURSIVE TrimEnd(_)
TrimEnd(s) ==
    IF s /= <<>> /\ s[Len(s)] \in WhiteSpace
    THEN TrimEnd(SubSeq(s, 1, Len(s) - 1))
    ELSE s

Trim(s) == TrimEnd(TrimStart(s))

---------------------------------------------------------------------------
(***************************************************************************)
(* The regex crate, as the parser uses it: Regex::new / RegexBuilder::build,*)
(* Regex::is_match, Regex::captures, Captures::get, Captures::len and      *)
(* Captures::expand.  Patterns outside the dialect (alternation, classes,  *)
(* anchors, nested or quantified groups, other flags, braced references)   *)
(* are not part of any rule universe below; RegexNew refuses them.         *)
(***************************************************************************)

Atom(kind, ch) == [kind |-> kind, ch |-> ch, quant |-> "1", g |-> 0]

IsAtom(item) == item.kind \in {"lit", "digit", "any"}

EscapableMeta == {".", "\\", "(", ")", "+", "*", "?"}

OutsideDialect == {"[", "]", "{", "}", "|", "^", "$"}

ParseFail == [ok |-> FALSE, items |-> <<>>, ng |-> 0, ci |-> FALSE]

RECURSIVE ParseFrom(_, _, _, _, _, _)
ParseFrom(p, i, items, depth, ng, ci) ==
    IF i > Len(p)
    THEN IF depth = 0
         THEN [ok |-> TRUE, items |-> items, ng |-> ng, ci |-> ci]
         ELSE ParseFail
    ELSE LET c == p[i] IN
      CASE c = "(" ->
             IF i + 1 <= Len(p) /\ p[i + 1] = "?"
             THEN IF /\ depth = 0
                     /\ i + 3 <= Len(p)
                     /\ p[i + 2] = "i"
                     /\ p[i + 3] = ")"
                  THEN ParseFrom(p, i + 4, items, depth, ng, TRUE)
                  ELSE ParseFail
             ELSE IF depth = 0
                  THEN ParseFrom(p, i + 1,
                                 Append(items, [kind |-> "open", ch |-> "(",
                                                quant |-> "1", g |-> ng + 1]),
                                 1, ng + 1, ci)
                  ELSE ParseFail
        [] c = ")" ->
             IF depth = 1
             THEN ParseFrom(p, i + 1,
                            Append(items, [kind |-> "close", ch |-> ")",
                                           quant |-> "1", g |-> ng]),
                            0, ng, ci)
             ELSE ParseFail
        [] c \in {"+", "*", "?"} ->
             IF /\ items /= <<>>
                /\ IsAtom(items[Len(items)])
                /\ items[Len(items)].quant = "1"
             THEN ParseFrom(p, i + 1,
                            [items EXCEPT ![Len(items)].quant = c],
                            depth, ng, ci)
             ELSE ParseFail
        [] c = "\\" ->
             IF i + 1 > Len(p) THEN ParseFail
             ELSE IF p[i + 1] = "d"
                  THEN ParseFrom(p, i + 2, Append(items, Atom("digit", "d")),
                                 depth, ng, ci)
                  ELSE IF p[i + 1] \in EscapableMeta
                       THEN ParseFrom(p, i + 2,
                                      Append(items, Atom("lit", p[i + 1])),
                                      depth, ng, ci)
                       ELSE ParseFail
        [] c = "." ->
             ParseFrom(p, i + 1, Append(items, Atom("any", ".")), depth, ng, ci)
        [] c \in OutsideDialect -> ParseFail
        [] OTHER ->
             ParseFrom(p, i + 1, Append(items, Atom("lit", c)), depth, ng, ci)

Compiled(p, r) ==
    IF r.ok
    THEN Ok([src |-> p, items |-> r.items, ng |-> r.ng, ci |-> r.ci])
    ELSE Err(p)

(* Regex::new(p) / RegexBuilder::new(p).build(): Ok(compiled) or Err(p). *)
RegexNew(p) == Compiled(p, ParseFrom(p, 1, <<>>, 0, 0, FALSE))

AtomMatches(item, c, ci) ==
    CASE item.kind = "lit" ->
           IF ci THEN Fold(c) = Fold(item.ch) ELSE c = item.ch
      [] item.kind = "digit" -> c \in Digits
      [] item.kind = "any" -> c /= "\n"
      [] OTHER -> FALSE

(* The number of consecutive characters of t from pos that item matches. *)
RunLen(item, t, pos, ci) ==
    LET avail == IF pos > Len(t) THEN 0 ELSE Len(t) - pos + 1 IN
    CHOOSE n \in 0..avail :
        /\ \A j \in 1..n : AtomMatches(item, t[pos + j - 1], ci)
        /\ n = avail \/ ~AtomMatches(item, t[pos + n], ci)

MatchFail == [ok |-> FALSE, caps |-> <<>>, start |-> 0, end |-> 0]

\* How often an atom with quantifier q may repeat, given a run of matches.
MaxCount(q, run) == IF q \in {"1", "?"} /\ run > 1 THEN 1 ELSE run

MinCount(q) == IF q \in {"1", "+"} THEN 1 ELSE 0

RECURSIVE MatchFrom(_, _, _, _, _)
RECURSIVE TryCounts(_, _, _, _, _, _, _)
RECURSIVE OrFewer(_, _, _, _, _, _, _, _)

(* Backtracking match of re.items[k..] against t at pos; greedy quantifiers. *)
MatchFrom(re, k, t, pos, caps) ==
    IF k > Len(re.items)
    THEN [ok |-> TRUE, caps |-> caps, start |-> 0, end |-> pos]
    ELSE CASE re.items[k].kind = "open" ->
                MatchFrom(re, k + 1, t, pos,
                          [caps EXCEPT ![re.items[k].g].s = pos])
           [] re.items[k].kind = "close" ->
                MatchFrom(re, k + 1, t, pos,
                          [caps EXCEPT ![re.items[k].g].e = pos])
           [] OTHER ->
                TryCounts(re, k, t, pos, caps,
                          MaxCount(re.items[k].quant,
                                   RunLen(re.items[k], t, pos, re.ci)),
                          MinCount(re.items[k].quant))

(* The atom re.items[k] taken n times, then the rest; on failure, fewer. *)
TryCounts(re, k, t, pos, caps, n, minn) ==
    IF n < minn THEN MatchFail
    ELSE OrFewer(MatchFrom(re, k + 1, t, pos + n, caps),
                 re, k, t, pos, caps, n, minn)

OrFewer(r, re, k, t, pos, caps, n, minn) ==
    IF r.ok THEN r
    ELSE IF n = 0 THEN MatchFail
         ELSE TryCounts(re, k, t, pos, caps, n - 1, minn)

RECURSIVE SearchFrom(_, _, _)
RECURSIVE OrLater(_, _, _, _)

(* The leftmost match: the first start position at which the pattern matches. *)
SearchFrom(re, t, start) ==
    IF start > Len(t) + 1 THEN MatchFail
    ELSE OrLater(MatchFrom(re, 1, t, start,
                           [g \in 1..re.ng |-> [s |-> 0, e |-> 0]]),
                 re, t, start)

OrLater(r, re, t, start) ==
    IF r.ok THEN [r EXCEPT !.start = start]
    ELSE SearchFrom(re, t, start + 1)

(* The Captures of a match m: captures[i + 1] is group i (group 0 is the
   whole match) as an Option of its text. *)
CapturesOf(re, t, m) ==
    IF ~m.ok THEN None
    ELSE Some([i \in 1..(re.ng + 1) |->
                 IF i = 1
                 THEN Some(SubSeq(t, m.start, m.end - 1))
                 ELSE Some(SubSeq(t, m.caps[i - 1].s, m.caps[i - 1].e - 1))])

(* Regex::captures(text) *)
regex_captures(re, t) == CapturesOf(re, t, SearchFrom(re, t, 1))

regex_is_match(re, t) == regex_captures(re, t).some

captures_len(captures) == Len(captures)

captures_get(captures, i) ==
    IF i + 1 <= Len(captures) THEN captures[i + 1] ELSE None

(* Option<Match>::map(|x| x.as_str()).and_then(none_if_empty) *)
group_text(captures, i) ==
    IF captures_get(captures, i).some
    THEN none_if_empty(captures_get(captures, i).val)
    ELSE None

IsWordChar(c) == c \in Digits \cup LowerLetters \cup UpperLetters \cup {"_"}

RECURSIVE ToNat(_)
ToNat(ds) ==
    IF ds = <<>> THEN 0
    ELSE 10 * ToNat(SubSeq(ds, 1, Len(ds) - 1)) + DigitVal(ds[Len(ds)])

(* The length of the capture-group name that starts at r[i]. *)
NameLen(r, i) ==
    LET avail == IF i > Len(r) THEN 0 ELSE Len(r) - i + 1 IN
    CHOOSE n \in 0..avail :
        /\ \A j \in 1..n : IsWordChar(r[i + j - 1])
        /\ n = avail \/ ~IsWordChar(r[i + n])

(* The text a reference to group `name` expands to: the group's text, or
   nothing when the group does not exist or did not participate. *)
RefText(captures, name) ==
    IF /\ \A j \in 1..Len(name) : name[j] \in Digits
       /\ captures_get(captures, ToNat(name)).some
    THEN captures_get(captures, ToNat(name)).val
    ELSE <<>>

RECURSIVE ExpandFrom(_, _, _)
RECURSIVE ExpandRef(_, _, _, _)

(* Captures::expand(replacement, &mut dst) for unbraced references:
   `$$` is a literal `$`, `$name` takes the longest run of [0-9A-Za-z_],
   a `$` that starts no reference is copied. *)
ExpandFrom(captures, r, i) ==
    IF i > Len(r) THEN <<>>
    ELSE IF r[i] /= "$" THEN <<r[i]>> \o ExpandFrom(captures, r, i + 1)
    ELSE IF i + 1 <= Len(r) /\ r[i + 1] = "$"
         THEN <<"$">> \o ExpandFrom(captures, r, i + 2)
         ELSE ExpandRef(captures, r, i, NameLen(r, i + 1))

(* The `$` at r[i], followed by a group name of n characters. *)
ExpandRef(captures, r, i, n) ==
    IF n = 0 THEN <<"$">> \o ExpandFrom(captures, r, i + 1)
    ELSE RefText(captures, SubSeq(r, i + 1, i + n))
             \o ExpandFrom(captures, r, i + n + 1)

captures_expand(captures, replacement) == ExpandFrom(captures, replacement, 1)

(* mod.rs replace_cow *)
replace_cow(replacement, replacement_has_group, captures) ==
    IF replacement_has_group /\ captures_len(captures) > 0
    THEN Trim(captures_expand(captures, replacement))
    ELSE replacement

---------------------------------------------------------------------------
(* device.rs *)

(* device::Matcher::try_from, the pattern with its inline flags *)
device_regex_with_flags(e) ==
    IF ~e.regex_flag.some \/ e.regex_flag.val = <<>>
    THEN e.regex
    ELSE <<"(", "?">> \o e.regex_flag.val \o <<")">> \o e.regex

(* device::Matcher::try_from, `Ok(Matcher { regex: regex?, .. })` *)
device_matcher(e, regex) ==
    IF regex.tag = "Err" THEN Err(regex.val)
    ELSE Ok([regex |-> regex.val,
             device_replacement_has_group |->
                 e.device_replacement.some /\ has_group(e.device_replacement.val),
             device_replacement |-> e.device_replacement,
             brand_replacement_has_group |->
                 e.brand_replacement.some /\ has_group(e.brand_replacement.val),
             brand_replacement |-> e.brand_replacement,
             model_replacement_has_group |->
                 e.model_replacement.some /\ has_group(e.model_replacement.val),
             model_replacement |-> e.model_replacement])

(* device::Matcher::try_from *)
device_try_from(e) ==
    device_matcher(e, RegexNew(clean_escapes(device_regex_with_flags(e))))

(* A variant of device_model with no capture-group fallback. *)
device_model_template_only(m, captures) ==
    IF m.model_replacement.some
    THEN none_if_empty(replace_cow(m.model_replacement.val,
                                   m.model_replacement_has_group, captures))
    ELSE None

(* device::Matcher::try_parse, the model field *)
device_model(m, captures) ==
    IF m.model_replacement.some
    THEN none_if_empty(replace_cow(m.model_replacement.val,
                                   m.model_replacement_has_group, captures))
    ELSE group_text(captures, 1)

(* device::Matcher::try_parse, the brand field *)
device_brand(m, captures) ==
    IF m.brand_replacement.some
    THEN none_if_empty(replace_cow(m.brand_replacement.val,
                                   m.brand_replacement_has_group, captures))
    ELSE None

(* device::Matcher::try_parse, the family: Some(text), or None for the `?`
   that leaves try_parse when group 1 is missing or empty. *)
device_family(m, captures) ==
    IF m.device_replacement.some
    THEN Some(replace_cow(m.device_replacement.val,
                          m.device_replacement_has_group, captures))
    ELSE group_text(captures, 1)

(* device::Matcher::try_parse, once the family is computed *)
device_with_family(m, captures, family) ==
    IF ~family.some THEN None
    ELSE Some([family |-> family.val,
               brand  |-> device_brand(m, captures),
               model  |-> device_model(m, captures)])

(* device::Matcher::try_parse, `if let Some(captures) = ...` *)
device_from_captures(m, c) ==
    IF ~c.some THEN None
    ELSE device_with_family(m, c.val, device_family(m, c.val))

(* device::Matcher::try_parse *)
device_try_parse(m, t) ==
    IF ~regex_is_match(m.regex, t) THEN None
    ELSE device_from_captures(m, regex_captures(m.regex, t))

---------------------------------------------------------------------------
(* os.rs *)

(* os::Matcher::try_from, `Ok(Matcher { regex: regex?, .. })` *)
os_matcher(e, regex) ==
    IF regex.tag = "Err" THEN Err(regex.val)
    ELSE Ok([regex |-> regex.val,
             os_replacement_has_group |->
                 e.os_replacement.some /\ has_group(e.os_replacement.val),
             os_replacement |-> e.os_replacement,
             os_v1_replacement_has_group |->
                 e.os_v1_replacement.some /\ has_group(e.os_v1_replacement.val),
             os_v1_replacement |-> e.os_v1_replacement,
             os_v2_replacement_has_group |->
                 e.os_v2_replacement.some /\ has_group(e.os_v2_replacement.val),
             os_v2_replacement |-> e.os_v2_replacement,
             os_v3_replacement_has_group |->
                 e.os_v3_replacement.some /\ has_group(e.os_v3_replacement.val),
             os_v3_replacement |-> e.os_v3_replacement])

(* os::Matcher::try_from *)
os_try_from(e) == os_matcher(e, RegexNew(clean_escapes(e.regex)))

(* A variant of os_version_field that prefers the capture group to the
   template. *)
os_version_field_group_first(replacement, replacement_has_group, captures, i) ==
    IF group_text(captures, i).some
    THEN group_text(captures, i)
    ELSE IF replacement.some
         THEN none_if_empty(replace_cow(replacement.val, replacement_has_group,
                                        captures))
         ELSE None

(* os::Matcher::try_parse, a version field: its template when one is
   configured, else capture group i *)
os_version_field(replacement, replacement_has_group, captures, i) ==
    IF replacement.some
    THEN none_if_empty(replace_cow(replacement.val, replacement_has_group,
                                   captures))
    ELSE group_text(captures, i)

(* os::Matcher::try_parse, the family *)
os_family(m, captures) ==
    IF m.os_replacement.some
    THEN Some(replace_cow(m.os_replacement.val, m.os_replacement_has_group,
                          captures))
    ELSE group_text(captures, 1)

(* os::Matcher::try_parse, once the family is computed *)
os_with_family(m, captures, family) ==
    IF ~family.some THEN None
    ELSE Some([family |-> family.val,
               major |-> os_version_field(m.os_v1_replacement,
                             m.os_v1_replacement_has_group, captures, 2),
               minor |-> os_version_field(m.os_v2_replacement,
                             m.os_v2_replacement_has_group, captures, 3),
               patch |-> os_version_field(m.os_v3_replacement,
                             m.os_v3_replacement_has_group, captures, 4),
               patch_minor |-> group_text(captures, 5)])

(* os::Matcher::try_parse, `if let Some(captures) = ...` *)
os_from_captures(m, c) ==
    IF ~c.some THEN None
    ELSE os_with_family(m, c.val, os_family(m, c.val))

(* os::Matcher::try_parse *)
os_try_parse(m, t) ==
    IF ~regex_is_match(m.regex, t) THEN None
    ELSE os_from_captures(m, regex_captures(m.regex, t))

---------------------------------------------------------------------------
(* user_agent.rs *)

(* user_agent::Matcher::try_from, `Ok(Matcher { regex: regex?, .. })` *)
user_agent_matcher(e, regex) ==
    IF regex.tag = "Err" THEN Err(regex.val)
    ELSE Ok([regex |-> regex.val,
             family_replacement_has_group |->
                 e.family_replacement.some /\ has_group(e.family_replacement.val),
             family_replacement |-> e.family_replacement,
             v1_replacement |-> e.v1_replacement,
             v2_replacement |-> e.v2_replacement,
             v3_replacement |-> e.v3_replacement])

(* user_agent::Matcher::try_from *)
user_agent_try_from(e) ==
    user_agent_matcher(e, RegexNew(clean_escapes(e.regex)))

(* user_agent::Matcher::try_parse, a version field: the template cloned as
   it is when one is configured, or else capture group i *)
user_agent_version_field(replacement, captures, i) ==
    IF replacement.some
    THEN Some(replacement.val)
    ELSE group_text(captures, i)

(* A variant of user_agent_family whose fallback reads the whole match. *)
user_agent_family_group_zero(m, captures) ==
    IF m.family_replacement.some
    THEN Some(replace_cow(m.family_replacement.val,
                          m.family_replacement_has_group, captures))
    ELSE group_text(captures, 0)

(* user_agent::Matcher::try_parse, the family *)
user_agent_family(m, captures) ==
    IF m.family_replacement.some
    THEN Some(replace_cow(m.family_replacement.val,
                          m.family_replacement_has_group, captures))
    ELSE group_text(captures, 1)

(* user_agent::Matcher::try_parse, once the family is computed *)
user_agent_with_family(m, captures, family) ==
    IF ~family.some THEN None
    ELSE Some([family |-> family.val,
               major |-> user_agent_version_field(m.v1_replacement, captures, 2),
               minor |-> user_agent_version_field(m.v2_replacement, captures, 3),
               patch |-> user_agent_version_field(m.v3_replacement, captures, 4)])

(* user_agent::Matcher::try_parse, `if let Some(captures) = ...` *)
user_agent_from_captures(m, c) ==
    IF ~c.some THEN None
    ELSE user_agent_with_family(m, c.val, user_agent_family(m, c.val))

(* user_agent::Matcher::try_parse *)
user_agent_try_parse(m, t) ==
    user_agent_from_captures(m, regex_captures(m.regex, t))

---------------------------------------------------------------------------
(* mod.rs: UserAgentParser *)

Kinds == {"device", "os", "user_agent"}

matcher_try_from(kind, e) ==
    CASE kind = "device" -> device_try_from(e)
      [] kind = "os" -> os_try_from(e)
      [] kind = "user_agent" -> user_agent_try_from(e)

try_parse(kind, m, t) ==
    CASE kind = "device" -> device_try_parse(m, t)
      [] kind = "os" -> os_try_parse(m, t)
      [] kind = "user_agent" -> user_agent_try_parse(m, t)

(* The variant of parser::Error that `?` wraps a category's error in. *)
ErrorVariant(kind) ==
    CASE kind = "device" -> "Device"
      [] kind = "os" -> "OS"
      [] kind = "user_agent" -> "UserAgent"

(* try_from's three empty vectors; err is the error `?` returned with, and
   log the Matcher::try_from calls made so far. *)
CompileStart ==
    [err |-> None,
     matchers |-> [device |-> <<>>, os |-> <<>>, user_agent |-> <<>>],
     log |-> <<>>]

RECURSIVE CompileFrom(_, _, _, _)
RECURSIVE Pushed(_, _, _, _, _)

(* A variant of Pushed that drops a rule whose pattern does not compile and
   goes on with the next. *)
PushedBestEffort(r, kind, entries, i, acc) ==
    IF r.tag = "Err"
    THEN CompileFrom(kind, entries, i + 1, acc)
    ELSE CompileFrom(kind, entries, i + 1,
                     [acc EXCEPT !.matchers[kind] = Append(@, r.val)])

(* One `for parser in ...` loop of try_from, from entry i on; nothing runs
   once `?` has returned. *)
CompileFrom(kind, entries, i, acc) ==
    IF acc.err.some \/ i > Len(entries) THEN acc
    ELSE Pushed(matcher_try_from(kind, entries[i]), kind, entries, i,
                [acc EXCEPT !.log = Append(@, <<kind, i>>)])

(* `matchers.push(Matcher::try_from(parser)?)`, r being what try_from gave *)
Pushed(r, kind, entries, i, acc) ==
    IF r.tag = "Err"
    THEN [acc EXCEPT !.err = Some([variant |-> ErrorVariant(kind),
                                   err |-> r.val])]
    ELSE CompileFrom(kind, entries, i + 1,
                     [acc EXCEPT !.matchers[kind] = Append(@, r.val)])

(* try_from's return value, and the log of the calls it made *)
Built(acc) ==
    [res |-> IF acc.err.some
             THEN Err(acc.err.val)
             ELSE Ok([device_matchers |-> acc.matchers.device,
                      os_matchers |-> acc.matchers.os,
                      user_agent_matchers |-> acc.matchers.user_agent]),
     log |-> acc.log]

(* UserAgentParser::try_from *)
try_from(file) ==
    Built(CompileFrom("user_agent", file.user_agent_parsers, 1,
            CompileFrom("os", file.os_parsers, 1,
              CompileFrom("device", file.device_parsers, 1, CompileStart))))

(* Device::default(), OS::default(), UserAgent::default() *)
DeviceDefault == [family |-> <<>>, brand |-> None, model |-> None]

OSDefault ==
    [family |-> <<>>, major |-> None, minor |-> None, patch |-> None,
     patch_minor |-> None]

UserAgentDefault ==
    [family |-> <<>>, major |-> None, minor |-> None, patch |-> None]

RECURSIVE FindMapFrom(_, _, _, _)
RECURSIVE OrNext(_, _, _, _, _)

(* matchers.iter().find_map(|matcher| matcher.try_parse(user_agent)), from i *)
FindMapFrom(kind, matchers, t, i) ==
    IF i > Len(matchers) THEN None
    ELSE OrNext(try_parse(kind, matchers[i], t), kind, matchers, t, i)

OrNext(r, kind, matchers, t, i) ==
    IF r.some THEN r ELSE FindMapFrom(kind, matchers, t, i + 1)

RECURSIVE FindMapLastFrom(_, _, _, _)
RECURSIVE OrPrevious(_, _, _, _, _)

(* A variant of find_map that walks the list backwards. *)
FindMapLastFrom(kind, matchers, t, i) ==
    IF i = 0 THEN None
    ELSE OrPrevious(try_parse(kind, matchers[i], t), kind, matchers, t, i)

OrPrevious(r, kind, matchers, t, i) ==
    IF r.some THEN r ELSE FindMapLastFrom(kind, matchers, t, i - 1)

find_map_last(kind, matchers, t) ==
    FindMapLastFrom(kind, matchers, t, Len(matchers))

find_map(kind, matchers, t) == FindMapFrom(kind, matchers, t, 1)

unwrap_or_default(r, default) == IF r.some THEN r.val ELSE default

parse_device(p, t) ==
    unwrap_or_default(find_map("device", p.device_matchers, t), DeviceDefault)

parse_os(p, t) ==
    unwrap_or_default(find_map("os", p.os_matchers, t), OSDefault)

parse_user_agent(p, t) ==
    unwrap_or_default(find_map("user_agent", p.user_agent_matchers, t),
                      UserAgentDefault)

(* A variant of parse that stops classifying at the first category in which
   no rule matched. *)
parse_until_default(p, t) ==
    [device |-> parse_device(p, t),
     os |-> IF find_map("device", p.device_matchers, t).some
            THEN parse_os(p, t)
            ELSE OSDefault,
     user_agent |-> IF /\ find_map("device", p.device_matchers, t).some
                       /\ find_map("os", p.os_matchers, t).some
                    THEN parse_user_agent(p, t)
                    ELSE UserAgentDefault]

parse(p, t) ==
    [device |-> parse_device(p, t),
     os |-> parse_os(p, t),
     user_agent |-> parse_user_agent(p, t)]

---------------------------------------------------------------------------
(* Rule universes.  Each pattern is written as the rule corpus writes it,
   before escape repair. *)

\* (n+)\/(\d*)
PatNameVersion == <<"(", "n", "+", ")", "\\", "/", "(", "\\", "d", "*", ")">>

\* (\d*)n
PatEmptyFirst == <<"(", "\\", "d", "*", ")", "n">>

\* n
PatNoGroup == <<"n">>

\* (n)(\d?)(\d)(\d)(\d*)
PatFiveGroups == <<"(", "n", ")", "(", "\\", "d", "?", ")", "(", "\\", "d", ")", "(", "\\", "d", ")", "(", "\\", "d", "*", ")">>

\* (n     (an unclosed group: does not compile)
PatUnclosed == <<"(", "n">>

\* Chrome/(\d+)\.(\d+)
PatChrome == <<"C", "h", "r", "o", "m", "e", "/", "(", "\\", "d", "+", ")", "\\", ".", "(", "\\", "d", "+", ")">>

\* n)     (an unopened group: does not compile)
PatUnopened == <<"n", ")">>

\* "Mozilla/5.0 Chrome/91.0"
TextChrome == <<"M", "o", "z", "i", "l", "l", "a", "/", "5", ".", "0", " ", "C", "h", "r", "o", "m", "e", "/", "9", "1", ".", "0">>

MatcherTexts ==
    { <<"n", "/", "5">>, <<"N", "/">>, <<"n", "5", "5", "5", "5">>,
      <<"n", "5", "5">>, <<"/">>, TextChrome }

\* "", "n", "$1", " $2"
Templates == { <<>>, <<"n">>, <<"$", "1">>, <<" ", "$", "2">> }

TemplateOptions == {None} \cup {Some(r) : r \in Templates}

\* regex_flag: absent, "", "i"
FlagOptions == {None, Some(<<>>), Some(<<"i">>)}

CommonPatterns ==
    {PatNameVersion, PatEmptyFirst, PatNoGroup, PatFiveGroups, PatUnclosed}

DeviceEntries ==
    [regex : CommonPatterns, regex_flag : FlagOptions,
     device_replacement : TemplateOptions, brand_replacement : TemplateOptions,
     model_replacement : TemplateOptions]

OSEntries ==
    [regex : CommonPatterns,
     os_replacement : TemplateOptions, os_v1_replacement : TemplateOptions,
     os_v2_replacement : TemplateOptions, os_v3_replacement : TemplateOptions]

UserAgentEntries ==
    [regex : CommonPatterns \cup {PatChrome},
     family_replacement : TemplateOptions, v1_replacement : TemplateOptions,
     v2_replacement : TemplateOptions, v3_replacement : TemplateOptions]

Entries ==
    {[kind |-> "device", rule |-> e] : e \in DeviceEntries}
    \cup {[kind |-> "os", rule |-> e] : e \in OSEntries}
    \cup {[kind |-> "user_agent", rule |-> e] : e \in UserAgentEntries}

---------------------------------------------------------------------------
(* The SubParser level: one rule record is compiled by its category's
   Matcher::try_from, and the matcher is applied to the text. *)

NotParsed == [called |-> FALSE, res |-> None]

ParserIdle ==
    /\ regex_file = [device_parsers |-> <<>>, os_parsers |-> <<>>,
                     user_agent_parsers |-> <<>>]
    /\ parser = NotCalled
    /\ compiled = <<>>
    /\ client = None
    /\ device = None
    /\ os = None
    /\ user_agent = None

EscapesIdle ==
    /\ pattern = <<>>
    /\ cleaned = <<>>

MatcherIdle ==
    /\ entry = [kind |-> "none", rule |-> <<>>]
    /\ matcher = NotCalled
    /\ out = NotParsed

InitMatcher ==
    /\ entry \in Entries
    /\ text \in MatcherTexts
    /\ matcher = NotCalled
    /\ out = NotParsed
    /\ ParserIdle
    /\ EscapesIdle

(* device::Matcher::try_from(entry) *)
DeviceTryFrom ==
    /\ entry.kind = "device"
    /\ matcher = NotCalled
    /\ matcher' = device_try_from(entry.rule)
    /\ UNCHANGED <<regex_file, parser, compiled, text, client, device, os,
                   user_agent, entry, out, pattern, cleaned>>

(* device::Matcher::try_parse(text) on the compiled matcher *)
DeviceTryParse ==
    /\ entry.kind = "device"
    /\ matcher.tag = "Ok"
    /\ ~out.called
    /\ out' = [called |-> TRUE, res |-> device_try_parse(matcher.val, text)]
    /\ UNCHANGED <<regex_file, parser, compiled, text, client, device, os,
                   user_agent, entry, matcher, pattern, cleaned>>

(* os::Matcher::try_from(entry) *)
OSTryFrom ==
    /\ entry.kind = "os"
    /\ matcher = NotCalled
    /\ matcher' = os_try_from(entry.rule)
    /\ UNCHANGED <<regex_file, parser, compiled, text, client, device, os,
                   user_agent, entry, out, pattern, cleaned>>

(* os::Matcher::try_parse(text) on the compiled matcher *)
OSTryParse ==
    /\ entry.kind = "os"
    /\ matcher.tag = "Ok"
    /\ ~out.called
    /\ out' = [called |-> TRUE, res |-> os_try_parse(matcher.val, text)]
    /\ UNCHANGED <<regex_file, parser, compiled, text, client, device, os,
                   user_agent, entry, matcher, pattern, cleaned>>

(* user_agent::Matcher::try_from(entry) *)
UserAgentTryFrom ==
    /\ entry.kind = "user_agent"
    /\ matcher = NotCalled
    /\ matcher' = user_agent_try_from(entry.rule)
    /\ UNCHANGED <<regex_file, parser, compiled, text, client, device, os,
                   user_agent, entry, out, pattern, cleaned>>

(* user_agent::Matcher::try_parse(text) on the compiled matcher *)
UserAgentTryParse ==
    /\ entry.kind = "user_agent"
    /\ matcher.tag = "Ok"
    /\ ~out.called
    /\ out' = [called |-> TRUE, res |-> user_agent_try_parse(matcher.val, text)]
    /\ UNCHANGED <<regex_file, parser, compiled, text, client, device, os,
                   user_agent, entry, matcher, pattern, cleaned>>

NextMatcher ==
    \/ DeviceTryFrom
    \/ DeviceTryParse
    \/ OSTryFrom
    \/ OSTryParse
    \/ UserAgentTryFrom
    \/ UserAgentTryParse

SpecMatcher == InitMatcher /\ [][NextMatcher]_vars

---------------------------------------------------------------------------
(* Properties of the SubParser level (SpecMatcher). *)

Parsed == out.called /\ out.res.some

\* The Capture Set of the parsed text.
Caps == regex_captures(matcher.val.regex, text).val

\* The template of entry field f, and the result's field it decides.
Configured(f) == entry.rule[f].some

NonEmptyOrAbsent(o) == ~o.some \/ o.val /= <<>>

\* The optional fields of a result of the given kind.
OptionalFields(kind) ==
    CASE kind = "device" -> {"brand", "model"}
      [] kind = "os" -> {"major", "minor", "patch", "patch_minor"}
      [] kind = "user_agent" -> {"major", "minor", "patch"}

\* The template that decides each optional field, per kind.
TemplateOf(kind) ==
    CASE kind = "device" ->
           [brand |-> "brand_replacement", model |-> "model_replacement"]
      [] kind = "os" ->
           [major |-> "os_v1_replacement", minor |-> "os_v2_replacement",
            patch |-> "os_v3_replacement"]
      [] kind = "user_agent" ->
           [major |-> "v1_replacement", minor |-> "v2_replacement",
            patch |-> "v3_replacement"]

FamilyTemplateOf(kind) ==
    CASE kind = "device" -> "device_replacement"
      [] kind = "os" -> "os_replacement"
      [] kind = "user_agent" -> "family_replacement"

\* The text of capture group i, empty when it is missing.
GroupOrEmpty(i) ==
    IF i + 1 <= Len(Caps) /\ Caps[i + 1].some THEN Caps[i + 1].val ELSE <<>>

(* C2: every optional field a successful try_parse produces is absent or a
   non-empty string, for all three matcher kinds. *)
C2_OptionalFieldsNonEmpty ==
    Parsed =>
        \A f \in OptionalFields(entry.kind) : NonEmptyOrAbsent(out.res.val[f])

(* C3: no result a matching rule produces has an empty family: an empty
   family makes try_parse yield nothing. *)
C3_FamilyNeverEmpty ==
    Parsed => out.res.val.family /= <<>>

(* C4: an optional field whose configured template contains `$` equals the
   template with each back-reference replaced by the referenced group's text,
   trimmed (and absent when that is empty), in every category. *)
C4_BackReferenceSubstituted ==
    Parsed =>
        \A f \in DOMAIN TemplateOf(entry.kind) :
            LET r == entry.rule[TemplateOf(entry.kind)[f]] IN
            (r.some /\ has_group(r.val)) =>
                out.res.val[f] = none_if_empty(Trim(captures_expand(Caps, r.val)))

ChromeRule ==
    [kind |-> "user_agent",
     rule |-> [regex |-> PatChrome, family_replacement |-> None,
               v1_replacement |-> None, v2_replacement |-> None,
               v3_replacement |-> None]]

ChromeCase == entry = ChromeRule /\ text = TextChrome /\ out.called

(* C8 as stated: the template-less Chrome rule yields no result on
   "Mozilla/5.0 Chrome/91.0". *)
C8_ChromeRuleFails ==
    ChromeCase => ~out.res.some

(* C8 amended: the template-less Chrome rule succeeds on
   "Mozilla/5.0 Chrome/91.0" with family "91" (group 1), major "0" (group 2)
   and minor and patch absent. *)
C8_ChromeRuleFamilyIsGroupOne ==
    ChromeCase =>
        out.res = Some([family |-> <<"9", "1">>, major |-> Some(<<"0">>),
                        minor |-> None, patch |-> None])

C8_Witness == ChromeCase

DeviceParsed == entry.kind = "device" /\ Parsed

(* C9 as stated: without brand_replacement (model_replacement), a successful
   device try_parse returns brand (model) absent. *)
C9_NoPositionalFallback ==
    DeviceParsed =>
        /\ ~Configured("brand_replacement") => ~out.res.val.brand.some
        /\ ~Configured("model_replacement") => ~out.res.val.model.some

(* C9 amended: without brand_replacement the brand is absent; without
   model_replacement the model is the text of capture group 1, absent when
   group 1 is missing or empty. *)
C9_BrandTemplateOnlyModelGroupOne ==
    DeviceParsed =>
        /\ ~Configured("brand_replacement") => ~out.res.val.brand.some
        /\ ~Configured("model_replacement") =>
               out.res.val.model = none_if_empty(GroupOrEmpty(1))

C9_Witness ==
    /\ DeviceParsed
    /\ ~Configured("brand_replacement")
    /\ ~Configured("model_replacement")
    /\ GroupOrEmpty(1) /= <<>>
    /\ out.res.val.model = Some(GroupOrEmpty(1))
    /\ ~out.res.val.brand.some

\* What a configured template resolves to: its expansion, trimmed, when it
\* holds a `$`, and the template itself otherwise.
Resolved(r) == IF has_group(r) THEN Trim(captures_expand(Caps, r)) ELSE r

(* C10: a configured template alone decides its field and the positional
   fallback is never used: the family is the template's resolution, an
   optional Device or OS field is that resolution or absent when it is empty,
   an optional UserAgent field is the template itself; an OS rule with
   os_v1_replacement = "" has an absent major. *)
C10_TemplatePrecedence ==
    Parsed =>
        /\ Configured(FamilyTemplateOf(entry.kind)) =>
               out.res.val.family = Resolved(entry.rule[FamilyTemplateOf(entry.kind)].val)
        /\ \A f \in DOMAIN TemplateOf(entry.kind) :
               LET r == entry.rule[TemplateOf(entry.kind)[f]] IN
               r.some =>
                   IF entry.kind = "user_agent"
                   THEN out.res.val[f] = Some(r.val)
                   ELSE out.res.val[f] = none_if_empty(Resolved(r.val))
        /\ (entry.kind = "os" /\ entry.rule.os_v1_replacement = Some(<<>>)) =>
               ~out.res.val.major.some

C10_Witness ==
    /\ Parsed
    /\ entry.kind = "os"
    /\ entry.rule.os_v1_replacement = Some(<<>>)
    /\ GroupOrEmpty(2) /= <<>>
    /\ ~out.res.val.major.some

---------------------------------------------------------------------------
(* The parser level: a RegexFile is compiled by UserAgentParser::try_from and
   the parser classifies the text. *)

\* The most rules a RegexFile holds, over its three lists.
MaxRules == 3

\* Per category: a rule whose family is group 1, a rule whose group 1 can be
\* empty, a rule with the literal family "m", a rule that does not compile.
ListDeviceEntries ==
    { [regex |-> x[1], regex_flag |-> None, device_replacement |-> x[2],
       brand_replacement |-> None, model_replacement |-> None] :
      x \in { <<PatNameVersion, None>>, <<PatEmptyFirst, None>>,
              <<PatNoGroup, Some(<<"m">>)>>, <<PatUnclosed, None>> } }

ListOSEntries ==
    { [regex |-> x[1], os_replacement |-> x[2], os_v1_replacement |-> None,
       os_v2_replacement |-> None, os_v3_replacement |-> None] :
      x \in { <<PatNameVersion, None>>, <<PatEmptyFirst, None>>,
              <<PatNoGroup, Some(<<"m">>)>>, <<PatUnopened, None>> } }

ListUserAgentEntries ==
    { [regex |-> x[1], family_replacement |-> x[2], v1_replacement |-> None,
       v2_replacement |-> None, v3_replacement |-> None] :
      x \in { <<PatNameVersion, None>>, <<PatEmptyFirst, None>>,
              <<PatNoGroup, Some(<<"m">>)>>, <<PatUnclosed, None>> } }

ListSizes ==
    { n \in (0..MaxRules) \X (0..MaxRules) \X (0..MaxRules) :
        n[1] + n[2] + n[3] <= MaxRules }

RegexFiles ==
    UNION { { [device_parsers |-> d, os_parsers |-> o, user_agent_parsers |-> u] :
              d \in [1..n[1] -> ListDeviceEntries],
              o \in [1..n[2] -> ListOSEntries],
              u \in [1..n[3] -> ListUserAgentEntries] } : n \in ListSizes }

ParserTexts == { <<"n", "/", "5">>, <<"5", "n">>, <<"/">> }

Init ==
    /\ regex_file \in RegexFiles
    /\ text \in ParserTexts
    /\ parser = NotCalled
    /\ compiled = <<>>
    /\ client = None
    /\ device = None
    /\ os = None
    /\ user_agent = None
    /\ MatcherIdle
    /\ EscapesIdle

(* UserAgentParser::try_from(regex_file) *)
TryFrom ==
    /\ parser = NotCalled
    /\ \E r \in {try_from(regex_file)} :
           /\ parser' = r.res
           /\ compiled' = r.log
    /\ UNCHANGED <<regex_file, text, client, device, os, user_agent, entry,
                   matcher, out, pattern, cleaned>>

(* Parser::parse(text) *)
Parse ==
    /\ parser.tag = "Ok"
    /\ ~client.some
    /\ client' = Some(parse(parser.val, text))
    /\ UNCHANGED <<regex_file, parser, compiled, text, device, os, user_agent,
                   entry, matcher, out, pattern, cleaned>>

(* Parser::parse_device(text) *)
ParseDevice ==
    /\ parser.tag = "Ok"
    /\ ~device.some
    /\ device' = Some(parse_device(parser.val, text))
    /\ UNCHANGED <<regex_file, parser, compiled, text, client, os, user_agent,
                   entry, matcher, out, pattern, cleaned>>

(* Parser::parse_os(text) *)
ParseOS ==
    /\ parser.tag = "Ok"
    /\ ~os.some
    /\ os' = Some(parse_os(parser.val, text))
    /\ UNCHANGED <<regex_file, parser, compiled, text, client, device,
                   user_agent, entry, matcher, out, pattern, cleaned>>

(* Parser::parse_user_agent(text) *)
ParseUserAgent ==
    /\ parser.tag = "Ok"
    /\ ~user_agent.some
    /\ user_agent' = Some(parse_user_agent(parser.val, text))
    /\ UNCHANGED <<regex_file, parser, compiled, text, client, device, os,
                   entry, matcher, out, pattern, cleaned>>

Next ==
    \/ TryFrom
    \/ Parse
    \/ ParseDevice
    \/ ParseOS
    \/ ParseUserAgent

Spec == Init /\ [][Next]_vars

---------------------------------------------------------------------------
(* Properties of the parser level (Spec). *)

\* The matcher list of a category, and what its classifier returned.
MatchersOf(kind) ==
    CASE kind = "device" -> parser.val.device_matchers
      [] kind = "os" -> parser.val.os_matchers
      [] kind = "user_agent" -> parser.val.user_agent_matchers

Returned(kind) ==
    CASE kind = "device" -> device
      [] kind = "os" -> os
      [] kind = "user_agent" -> user_agent

DefaultOf(kind) ==
    CASE kind = "device" -> DeviceDefault
      [] kind = "os" -> OSDefault
      [] kind = "user_agent" -> UserAgentDefault

Succeeds(kind, m) == try_parse(kind, m, text).some

OutputOf(kind, m) == try_parse(kind, m, text).val

\* r is the output of the first matcher of ms that succeeds on the text, or
\* the default when none does.
IsFirstSuccess(kind, ms, r) ==
    \/ \E i \in 1..Len(ms) :
           /\ Succeeds(kind, ms[i])
           /\ \A j \in 1..(i - 1) : ~Succeeds(kind, ms[j])
           /\ r = OutputOf(kind, ms[i])
    \/ /\ \A i \in 1..Len(ms) : ~Succeeds(kind, ms[i])
       /\ r = DefaultOf(kind)

\* What the category's classifier returns when its list is ms.
ClassifyWith(kind, ms) ==
    CASE kind = "device" ->
           parse_device([parser.val EXCEPT !.device_matchers = ms], text)
      [] kind = "os" ->
           parse_os([parser.val EXCEPT !.os_matchers = ms], text)
      [] kind = "user_agent" ->
           parse_user_agent([parser.val EXCEPT !.user_agent_matchers = ms], text)

Swapped(ms, i, j) == [ms EXCEPT ![i] = ms[j], ![j] = ms[i]]

\* Matchers i < j of ms both succeed, and none before i does.
BothSucceed(kind, ms, i, j) ==
    /\ i < j
    /\ Succeeds(kind, ms[i])
    /\ Succeeds(kind, ms[j])
    /\ \A k \in 1..(i - 1) : ~Succeeds(kind, ms[k])

(* C1: in each category the classifier returns the output of the first
   matcher, in list order, whose try_parse succeeds; of two rules that both
   succeed the earlier one wins, and swapping them makes the other win. *)
C1_FirstMatchWins ==
    parser.tag = "Ok" =>
        \A kind \in Kinds :
            Returned(kind).some =>
                /\ IsFirstSuccess(kind, MatchersOf(kind), Returned(kind).val)
                /\ \A i, j \in 1..Len(MatchersOf(kind)) :
                       BothSucceed(kind, MatchersOf(kind), i, j) =>
                           /\ Returned(kind).val
                                  = OutputOf(kind, MatchersOf(kind)[i])
                           /\ ClassifyWith(kind, Swapped(MatchersOf(kind), i, j))
                                  = OutputOf(kind, MatchersOf(kind)[j])

C1_Witness ==
    /\ parser.tag = "Ok"
    /\ \E kind \in Kinds :
           /\ Returned(kind).some
           /\ \E i, j \in 1..Len(MatchersOf(kind)) :
                  /\ BothSucceed(kind, MatchersOf(kind), i, j)
                  /\ OutputOf(kind, MatchersOf(kind)[i])
                         /= OutputOf(kind, MatchersOf(kind)[j])
                  /\ Returned(kind).val = OutputOf(kind, MatchersOf(kind)[i])

\* The rules of a file in the order try_from is to compile them.
RulesInOrder(file) ==
    [i \in 1..Len(file.device_parsers) |-> <<"device", i>>]
    \o [i \in 1..Len(file.os_parsers) |-> <<"os", i>>]
    \o [i \in 1..Len(file.user_agent_parsers) |-> <<"user_agent", i>>]

RulesOf(file, kind) ==
    CASE kind = "device" -> file.device_parsers
      [] kind = "os" -> file.os_parsers
      [] kind = "user_agent" -> file.user_agent_parsers

\* What compiling rule c = <<kind, i>> of the file gives.
CompiledRule(file, c) == matcher_try_from(c[1], RulesOf(file, c[1])[c[2]])

\* The positions in RulesInOrder of the rules whose pattern does not compile.
Failing(file) ==
    { k \in 1..Len(RulesInOrder(file)) :
        CompiledRule(file, RulesInOrder(file)[k]).tag = "Err" }

FirstFailing(file) ==
    CHOOSE k \in Failing(file) : \A j \in Failing(file) : k <= j

\* The matcher list of a category is its rule list compiled, rule by rule.
SameOrder(kind) ==
    /\ Len(MatchersOf(kind)) = Len(RulesOf(regex_file, kind))
    /\ \A i \in 1..Len(MatchersOf(kind)) :
           Ok(MatchersOf(kind)[i]) = CompiledRule(regex_file, <<kind, i>>)

(* C5: try_from compiles the rules in the order device, os, user-agent; the
   first rule whose pattern fails to compile makes it return that rule's
   error in its category's variant, with no later rule compiled and no
   parser returned; when all compile, the three matcher lists have the
   length and order of the three rule lists. *)
C5_FailFast ==
    parser.tag /= "NotCalled" =>
        IF Failing(regex_file) = {}
        THEN /\ parser.tag = "Ok"
             /\ compiled = RulesInOrder(regex_file)
             /\ \A kind \in Kinds : SameOrder(kind)
        ELSE /\ parser.tag = "Err"
             /\ parser.val.variant
                    = ErrorVariant(RulesInOrder(regex_file)[FirstFailing(regex_file)][1])
             /\ Err(parser.val.err)
                    = CompiledRule(regex_file,
                          RulesInOrder(regex_file)[FirstFailing(regex_file)])
             /\ compiled = SubSeq(RulesInOrder(regex_file), 1,
                                  FirstFailing(regex_file))

C5_Witness ==
    /\ parser.tag = "Err"
    /\ parser.val.variant = "OS"
    /\ Len(compiled) >= 2
    /\ Len(compiled) < Len(RulesInOrder(regex_file))

\* A parser that holds the matchers of one category only.
OnlyCategory(kind) ==
    [device_matchers |-> IF kind = "device" THEN parser.val.device_matchers ELSE <<>>,
     os_matchers |-> IF kind = "os" THEN parser.val.os_matchers ELSE <<>>,
     user_agent_matchers |->
         IF kind = "user_agent" THEN parser.val.user_agent_matchers ELSE <<>>]

NoRuleMatches(kind) ==
    \A i \in 1..Len(MatchersOf(kind)) : ~Succeeds(kind, MatchersOf(kind)[i])

(* C7: parse returns, for every text and compiled parser, the triple of what
   parse_device, parse_os and parse_user_agent return for the same text; a
   category in which no rule matches gets its default, and each category's
   result is what its own rule list alone gives. *)
C7_ParseIsTheTriple ==
    (parser.tag = "Ok" /\ client.some) =>
        /\ \A kind \in Kinds :
               /\ Returned(kind).some => client.val[kind] = Returned(kind).val
               /\ NoRuleMatches(kind) => client.val[kind] = DefaultOf(kind)
        /\ client.val.device = parse_device(OnlyCategory("device"), text)
        /\ client.val.os = parse_os(OnlyCategory("os"), text)
        /\ client.val.user_agent
               = parse_user_agent(OnlyCategory("user_agent"), text)

C7_Witness ==
    /\ parser.tag = "Ok"
    /\ client.some
    /\ device.some
    /\ os.some
    /\ user_agent.some
    /\ MatchersOf("device") /= <<>>
    /\ client.val.device = DeviceDefault
    /\ client.val.os /= OSDefault

---------------------------------------------------------------------------
(* Escape repair on its own: clean_escapes applied to a pattern, and again
   to its own result. *)

\* The longest raw pattern.
MaxPatternLen == 3

EscapeAlphabet == {"\\", "!", " ", "/", "n"}

RawPatterns == UNION { [1..k -> EscapeAlphabet] : k \in 0..MaxPatternLen }

InitEscapes ==
    /\ pattern \in RawPatterns
    /\ cleaned = <<>>
    /\ text = <<>>
    /\ ParserIdle
    /\ MatcherIdle

(* clean_escapes(pattern) *)
Repair ==
    /\ cleaned = <<>>
    /\ cleaned' = <<clean_escapes(pattern)>>
    /\ UNCHANGED <<regex_file, parser, compiled, text, client, device, os,
                   user_agent, entry, matcher, out, pattern>>

(* clean_escapes applied to the repaired pattern *)
RepairAgain ==
    /\ Len(cleaned) = 1
    /\ cleaned' = Append(cleaned, clean_escapes(cleaned[1]))
    /\ UNCHANGED <<regex_file, parser, compiled, text, client, device, os,
                   user_agent, entry, matcher, out, pattern>>

NextEscapes ==
    \/ Repair
    \/ RepairAgain

SpecEscapes == InitEscapes /\ [][NextEscapes]_vars

(* C6: escape repair is idempotent: repairing a repaired pattern changes
   nothing, runs of backslashes included. *)
C6_RepairIdempotent ==
    Len(cleaned) = 2 => cleaned[2] = cleaned[1]

=============================================================================
